---- MODULE Spec2Model ----
(***************************************************************************)
(* Repository constellation of src/src/App.jsx: the useGithubRepos hook    *)
(* (fetch, filter, rank, truncate, publish), the radial layout computed in *)
(* RepoConstellation's render, and the drag/click handlers of RepoNode.    *)
(*                                                                         *)
(* Three specifications share the variables:                               *)
(*   Spec        the hook: effect runs, their fetches and continuations    *)
(*   SpecNode    one RepoNode: pointer gestures and its four handlers      *)
(*   SpecLayout  the repos.map of the render, one callback per step        *)
(***************************************************************************)
EXTENDS Integers, Sequences, FiniteSets, TLC

\* ---------------------------------------------------------------- bounds
MaxFetches == 2      \* effect runs (fetches started) in one behaviour
MaxRecords == 3      \* records in one response body
MaxTime    == 3      \* distinct pushed_at instants
MaxCount   == 2      \* largest display count passed to the hook
MaxOffset  == 6      \* largest |offset.x|, |offset.y| of a drag, in px
MaxNodes   == 6      \* longest displayed sequence laid out
Resolution == 100    \* distances are kept in 1/Resolution px

\* ------------------------------------------------------------- constants
Threshold  == 5      \* handleClick: dragDistance > 5
Rings      == 3      \* i % 3
DisplayCount == 12   \* useGithubRepos(username, 12)
BaseRadius == 120    \* 120 + ring * 50
RingStep   == 50

VARIABLES
  \* useGithubRepos
  username,          \* dependency of the effect
  count,             \* dependency of the effect
  mounted,           \* the component that owns the hook is mounted
  repos, loading, error,
  started,           \* number of effect runs so far; the last one is current
  pc,                \* per fetch: where load() is suspended
  alive,             \* per fetch: the `alive` flag of its effect closure
  cnt,               \* per fetch: the `count` captured by its closure
  requests,          \* number of fetch() calls issued
  published,         \* fetches whose continuation called setRepos
  lastPublish,       \* the last setRepos: by which fetch, from which body, with which count
  outcome,           \* per fetch: how its request ended, and whether it ended late
  \* RepoNode
  isDragging, dragDistance,
  phase,             \* pointer gesture: "idle", "pressed", "dragging", "released"
  offset,            \* info.offset of the pan session in progress
  moved,             \* an onDrag event was delivered in this press-release cycle
  dragged,           \* onDragStart was delivered in this press-release cycle
  beyond,            \* an onDrag of this press-release cycle was farther than Threshold
  lastClick,         \* outcome of the last click event
  \* RepoConstellation render
  positions,         \* nodes produced so far by repos.map
  divisions,         \* evaluations of i / repos.length in this render
  rendered           \* repos.map has returned

hookVars   == <<username, count, mounted, repos, loading, error, started, pc,
                alive, cnt, requests, published, lastPublish, outcome>>
nodeVars   == <<isDragging, dragDistance, phase, offset, moved, dragged, beyond,
                lastClick>>
layoutVars == <<positions, divisions, rendered>>
vars       == <<hookVars, nodeVars, layoutVars>>

\* ------------------------------------------------------------ value sets
Users     == {"iamshivank", "other"}
Counts    == 0..MaxCount
FetchIds  == 1..MaxFetches
Times     == 1..MaxTime
Null      == "null"
NoData    == [by |-> 0, data |-> <<>>, n |-> 0]

\* A response body of n records; the identifier is the record's place in it.
BodiesOfLen(n) ==
  { [i \in 1..n |-> [id |-> i, fork |-> f[i][1], pushed_at |-> f[i][2]]] :
      f \in [1..n -> BOOLEAN \X Times] }
Bodies == UNION { BodiesOfLen(n) : n \in 0..MaxRecords }

Min(a, b) == IF a < b THEN a ELSE b

\* ------------------------------------------------- filter, sort, truncate
NonForkKeepsForks(data) == SelectSeq(data, LAMBDA r : r.fork)

\* .filter((r) => !r.fork)
NonFork(data) == SelectSeq(data, LAMBDA r : ~r.fork)

CompareAscending(a, b) == a.pushed_at - b.pushed_at

\* (a, b) => new Date(b.pushed_at) - new Date(a.pushed_at)
Compare(a, b) == b.pushed_at - a.pushed_at

\* Array.prototype.sort is stable: r goes behind every element it does not
\* strictly precede.
RECURSIVE InsertSorted(_, _)
InsertSorted(s, r) ==
  IF s = <<>> THEN <<r>>
  ELSE IF Compare(Head(s), r) <= 0 THEN <<Head(s)>> \o InsertSorted(Tail(s), r)
  ELSE <<r>> \o s

RECURSIVE SortByPushed(_)
SortByPushed(s) ==
  IF s = <<>> THEN <<>>
  ELSE InsertSorted(SortByPushed(SubSeq(s, 1, Len(s) - 1)), s[Len(s)])

\* .slice(0, count)
Slice(s, n) == SubSeq(s, 1, Min(n, Len(s)))

Filtered(data, n) == Slice(SortByPushed(NonFork(data)), n)

\* --------------------------------------------------------- useGithubRepos
Init_Node ==
  /\ isDragging = FALSE
  /\ dragDistance = 0
  /\ phase = "idle"
  /\ offset = <<0, 0>>
  /\ moved = FALSE
  /\ dragged = FALSE
  /\ beyond = FALSE
  /\ lastClick = "none"

Init_Layout ==
  /\ positions = <<>>
  /\ divisions = 0
  /\ rendered = FALSE

Init_Hook ==
  /\ username \in Users
  /\ count \in Counts
  /\ mounted = TRUE
  /\ repos = <<>>
  /\ loading = TRUE
  /\ error = Null
  /\ started = 0
  /\ pc = [f \in FetchIds |-> "idle"]
  /\ alive = [f \in FetchIds |-> FALSE]
  /\ cnt = [f \in FetchIds |-> 0]
  /\ requests = 0
  /\ published = {}
  /\ lastPublish = NoData
  /\ outcome = [f \in FetchIds |-> "none"]

Init == Init_Hook /\ Init_Node /\ Init_Layout

\* The cleanup of the previous effect run: alive = false.
Cleanup == [f \in FetchIds |-> IF f = started THEN FALSE ELSE alive[f]]

StaleNever(f) == FALSE

\* if (!alive) return;
Stale(f) == ~alive[f]

\* catch (e) { setError(e.message); }   A state update of an unmounted
\* component is dropped by React.
Catch(f, msg) == IF mounted THEN msg ELSE error

FinallyUnguarded(f) == FALSE

FinallySkipped(f) == loading

\* finally { if (alive) setLoading(false); }
Finally(f) == IF alive[f] THEN FALSE ELSE loading

\* How a request ended, marked late when a newer effect run or the unmount
\* came before its end.
Ended(f, how) == IF f = started /\ mounted THEN how ELSE "late_" \o how

\* The effect runs: after the first render, and after every render in which
\* username or count differ from the last run.  The previous run's cleanup
\* comes first; load() then runs up to its first await.
RunEffect(u, c) ==
  /\ mounted
  /\ started < MaxFetches
  /\ started = 0 => (u = username /\ c = count)
  /\ started > 0 => <<u, c>> # <<username, count>>
  /\ username' = u
  /\ count' = c
  /\ started' = started + 1
  /\ alive' = [Cleanup EXCEPT ![started + 1] = TRUE]
  /\ cnt' = [cnt EXCEPT ![started + 1] = c]
  /\ pc' = [pc EXCEPT ![started + 1] = "fetch"]
  /\ loading' = TRUE
  /\ error' = Null
  /\ requests' = requests + 1
  /\ UNCHANGED <<mounted, repos, published, lastPublish, outcome>>

\* The component unmounts: the cleanup of the current effect run.
Unmount ==
  /\ mounted
  /\ mounted' = FALSE
  /\ alive' = Cleanup
  /\ UNCHANGED <<username, count, repos, loading, error, started, pc, cnt,
                 requests, published, lastPublish, outcome>>

\* await fetch(...) rejects: network failure.
FetchRejects(f) ==
  /\ pc[f] = "fetch"
  /\ pc' = [pc EXCEPT ![f] = "done"]
  /\ error' = Catch(f, "Failed to fetch")
  /\ loading' = Finally(f)
  /\ outcome' = [outcome EXCEPT ![f] = Ended(f, "failed")]
  /\ UNCHANGED <<username, count, mounted, repos, started, alive, cnt,
                 requests, published, lastPublish>>

\* await fetch(...) resolves with resp.ok false: throw new Error(`GitHub: ...`).
FetchNotOk(f) ==
  /\ pc[f] = "fetch"
  /\ pc' = [pc EXCEPT ![f] = "done"]
  /\ error' = Catch(f, "GitHub: 404")
  /\ loading' = Finally(f)
  /\ outcome' = [outcome EXCEPT ![f] = Ended(f, "failed")]
  /\ UNCHANGED <<username, count, mounted, repos, started, alive, cnt,
                 requests, published, lastPublish>>

\* await fetch(...) resolves with resp.ok true: load() awaits resp.json().
FetchOk(f) ==
  /\ pc[f] = "fetch"
  /\ pc' = [pc EXCEPT ![f] = "json"]
  /\ UNCHANGED <<username, count, mounted, repos, loading, error, started,
                 alive, cnt, requests, published, lastPublish, outcome>>

\* await resp.json() rejects: the body is not JSON.
JsonRejects(f) ==
  /\ pc[f] = "json"
  /\ pc' = [pc EXCEPT ![f] = "done"]
  /\ error' = Catch(f, "Unexpected token")
  /\ loading' = Finally(f)
  /\ outcome' = [outcome EXCEPT ![f] = Ended(f, "failed")]
  /\ UNCHANGED <<username, count, mounted, repos, started, alive, cnt,
                 requests, published, lastPublish>>

\* await resp.json() resolves with a value that is not an array: a stale
\* continuation returns before it touches data, a live one throws a
\* TypeError at data.filter.
JsonNotArray(f) ==
  /\ pc[f] = "json"
  /\ pc' = [pc EXCEPT ![f] = "done"]
  /\ error' = IF Stale(f) THEN error ELSE Catch(f, "data.filter is not a function")
  /\ loading' = Finally(f)
  /\ outcome' = [outcome EXCEPT ![f] = Ended(f, "failed")]
  /\ UNCHANGED <<username, count, mounted, repos, started, alive, cnt,
                 requests, published, lastPublish>>

\* await resp.json() resolves with an array of records.
JsonResolves(f, data) ==
  /\ pc[f] = "json"
  /\ pc' = [pc EXCEPT ![f] = "done"]
  /\ IF Stale(f)
       THEN UNCHANGED <<repos, published, lastPublish>>
       ELSE /\ repos' = Filtered(data, cnt[f])
            /\ published' = published \cup {f}
            /\ lastPublish' = [by |-> f, data |-> data, n |-> cnt[f]]
  /\ loading' = Finally(f)
  /\ outcome' = [outcome EXCEPT ![f] = Ended(f, "ok")]
  /\ UNCHANGED <<username, count, mounted, error, started, alive, cnt,
                 requests>>

\* A stale continuation returns before it reads data: one body stands for all.
BodiesRead(f) == IF Stale(f) THEN {<<>>} ELSE Bodies

Next ==
  \/ (\E u \in Users, c \in Counts : RunEffect(u, c)) /\ UNCHANGED <<nodeVars, layoutVars>>
  \/ Unmount /\ UNCHANGED <<nodeVars, layoutVars>>
  \/ (\E f \in FetchIds : FetchRejects(f)) /\ UNCHANGED <<nodeVars, layoutVars>>
  \/ (\E f \in FetchIds : FetchNotOk(f)) /\ UNCHANGED <<nodeVars, layoutVars>>
  \/ (\E f \in FetchIds : FetchOk(f)) /\ UNCHANGED <<nodeVars, layoutVars>>
  \/ (\E f \in FetchIds : JsonRejects(f)) /\ UNCHANGED <<nodeVars, layoutVars>>
  \/ (\E f \in FetchIds : JsonNotArray(f)) /\ UNCHANGED <<nodeVars, layoutVars>>
  \/ (\E f \in FetchIds : \E data \in BodiesRead(f) : JsonResolves(f, data)) /\ UNCHANGED <<nodeVars, layoutVars>>

Spec == Init /\ [][Next]_vars

\* --------------------------------------------------------------- RepoNode
Offsets == (0 - MaxOffset)..MaxOffset

SquaredNorm(o) == o[1] * o[1] + o[2] * o[2]

\* The largest r in lo..hi with r * r <= v, by bisection.
RECURSIVE Root(_, _, _)
Root(lo, hi, v) ==
  IF lo = hi THEN lo
  ELSE IF ((lo + hi + 1) \div 2) * ((lo + hi + 1) \div 2) <= v
         THEN Root((lo + hi + 1) \div 2, hi, v)
         ELSE Root(lo, (lo + hi + 1) \div 2 - 1, v)

\* Math.sqrt(v), kept in 1/Resolution px and rounded down.
Sqrt(v) == Root(0, 2 * MaxOffset * Resolution, v * Resolution * Resolution)

\* Math.sqrt(info.offset.x * info.offset.x + info.offset.y * info.offset.y),
\* tabulated over the offsets.
Distances == [o \in Offsets \X Offsets |-> Sqrt(o[1] * o[1] + o[2] * o[2])]

Distance(o) == Distances[o]

SuppressAtThreshold == dragDistance >= Threshold * Resolution

\* if (dragDistance > 5)
Suppress == dragDistance > Threshold * Resolution

\* The pointer goes down on the node.
PointerDown ==
  /\ phase = "idle"
  /\ phase' = "pressed"
  /\ offset' = <<0, 0>>
  /\ moved' = FALSE
  /\ dragged' = FALSE
  /\ beyond' = FALSE
  /\ lastClick' = "none"
  /\ UNCHANGED <<isDragging, dragDistance>>

\* onDragStart: the pointer has moved far enough for a pan session to begin.
handleDragStart ==
  /\ phase = "pressed"
  /\ phase' = "dragging"
  /\ isDragging' = TRUE
  /\ dragDistance' = 0
  /\ dragged' = TRUE
  /\ UNCHANGED <<offset, moved, beyond, lastClick>>

\* onDrag: a pointer move at total offset o from the start of the drag.
handleDrag(o) ==
  /\ phase = "dragging"
  /\ dragDistance' = Distance(o)
  /\ offset' = o
  /\ moved' = TRUE
  /\ beyond' = (beyond \/ SquaredNorm(o) > Threshold * Threshold)
  /\ UNCHANGED <<isDragging, phase, dragged, lastClick>>

\* onDragEnd: the pointer is released after a drag.
handleDragEnd ==
  /\ phase = "dragging"
  /\ phase' = "released"
  /\ isDragging' = FALSE
  /\ UNCHANGED <<dragDistance, offset, moved, dragged, beyond, lastClick>>

\* The pointer is released before any pan session began: a tap.
PointerUp ==
  /\ phase = "pressed"
  /\ phase' = "released"
  /\ UNCHANGED <<isDragging, dragDistance, offset, moved, dragged, beyond, lastClick>>

\* onClick: preventDefault cancels the navigation of the anchor.
handleClick ==
  /\ phase = "released"
  /\ phase' = "idle"
  /\ lastClick' = IF Suppress THEN "suppressed" ELSE "navigated"
  /\ UNCHANGED <<isDragging, dragDistance, offset, moved, dragged, beyond>>

\* The release is not followed by a click on the node (the pointer went up
\* outside it).
NoClick ==
  /\ phase = "released"
  /\ phase' = "idle"
  /\ UNCHANGED <<isDragging, dragDistance, offset, moved, dragged, beyond, lastClick>>

NextNode ==
  \/ PointerDown /\ UNCHANGED <<hookVars, layoutVars>>
  \/ handleDragStart /\ UNCHANGED <<hookVars, layoutVars>>
  \/ (\E o \in Offsets \X Offsets : handleDrag(o)) /\ UNCHANGED <<hookVars, layoutVars>>
  \/ handleDragEnd /\ UNCHANGED <<hookVars, layoutVars>>
  \/ PointerUp /\ UNCHANGED <<hookVars, layoutVars>>
  \/ handleClick /\ UNCHANGED <<hookVars, layoutVars>>
  \/ NoClick /\ UNCHANGED <<hookVars, layoutVars>>

SpecNode == Init /\ [][NextNode]_vars

\* ------------------------------------------------- RepoConstellation render
RECURSIVE GCD(_, _)
GCD(a, b) == IF b = 0 THEN a ELSE GCD(b, a % b)

\* (i / repos.length) * Math.PI * 2, as the fraction of a full turn in lowest
\* terms <<numerator, denominator>>.
Angle(i, m) == <<i \div GCD(i, m), m \div GCD(i, m)>>

RingGrouped(i) == (i \div Rings) % Rings

\* i % 3
Ring(i) == i % Rings

\* 120 + ring * 50
Dist(ring) == BaseRadius + ring * RingStep

\* One callback of repos.map for the entry r at zero-based index i.  The
\* node's x and y are Math.cos(angle) * dist and Math.sin(angle) * dist: the
\* point at distance dist and direction angle, kept in that polar form.
NodeAt(r, i, m) ==
  [key |-> r.id, ring |-> Ring(i), dist |-> Dist(Ring(i)), angle |-> Angle(i, m)]

\* Sequences a successful fetch can publish: no fork, most recently pushed
\* first.
Displayable ==
  UNION { { [i \in 1..m |-> [id |-> i, fork |-> FALSE, pushed_at |-> t[i]]] :
             t \in { u \in [1..m -> Times] : \A i \in 1..m, j \in 1..m : i < j => u[i] >= u[j] } } :
          m \in 0..MaxNodes }

\* The render that follows a successful fetch of RepoConstellation.
InitLayout ==
  /\ username \in Users
  /\ count = DisplayCount
  /\ mounted = TRUE
  /\ \E data \in Displayable :
       /\ lastPublish = [by |-> 1, data |-> data, n |-> DisplayCount]
       /\ repos = Filtered(data, DisplayCount)
  /\ loading = FALSE
  /\ error = Null
  /\ started = 1
  /\ pc = [f \in FetchIds |-> IF f = 1 THEN "done" ELSE "idle"]
  /\ alive = [f \in FetchIds |-> f = 1]
  /\ cnt = [f \in FetchIds |-> IF f = 1 THEN DisplayCount ELSE 0]
  /\ requests = 1
  /\ published = {1}
  /\ outcome = [f \in FetchIds |-> IF f = 1 THEN "ok" ELSE "none"]
  /\ Init_Node
  /\ Init_Layout

\* repos.map calls its callback for the next index.
MapCallback ==
  /\ ~rendered
  /\ Len(positions) < Len(repos)
  /\ positions' = Append(positions, NodeAt(repos[Len(positions) + 1], Len(positions), Len(repos)))
  /\ divisions' = divisions + 1
  /\ UNCHANGED rendered

\* repos.map returns: every index has been visited.
MapReturn ==
  /\ ~rendered
  /\ Len(positions) = Len(repos)
  /\ rendered' = TRUE
  /\ UNCHANGED <<positions, divisions>>

NextLayout ==
  \/ MapCallback /\ UNCHANGED <<hookVars, nodeVars>>
  \/ MapReturn /\ UNCHANGED <<hookVars, nodeVars>>

SpecLayout == InitLayout /\ [][NextLayout]_vars

\* ================================================================= claims
Late == {"late_ok", "late_failed"}

\* C1: a fetch that was superseded by a newer effect run before it resolved
\* never publishes: whatever the order of arrival, its response is not
\* written to repos, and what repos holds was written by the fetch that was
\* current at the time, from its own body.
C1_SupersededNeverPublishes ==
  /\ \A f \in FetchIds : outcome[f] \in Late => f \notin published
  /\ lastPublish # NoData =>
       /\ outcome[lastPublish.by] = "ok"
       /\ repos = Filtered(lastPublish.data, lastPublish.n)

\* Both fetches overlapped and both bodies arrived; only the second was written.
C1_Witness ==
  /\ started = 2
  /\ outcome[1] = "late_ok"
  /\ outcome[2] = "ok"
  /\ published = {2}
  /\ repos # <<>>

\* C2: the resolution of a superseded or torn-down fetch, success or failure,
\* changes none of repos, loading and error.
C2_LateResolutionDiscarded ==
  [][\A f \in FetchIds :
       (outcome[f] = "none" /\ outcome'[f] \in Late) =>
         (repos' = repos /\ loading' = loading /\ error' = error)]_vars

\* C3: whenever error is set, the rendered repository set is empty.
C3_NoReposWithError == error # Null => repos = <<>>

\* C4: the failure of the current fetch of a mounted component, whatever its
\* kind, sets error, clears loading, publishes nothing and issues no request;
\* and no request is ever issued but the one of each effect run.
C4_FailureOutcome ==
  /\ [][(started > 0 /\ outcome[started] = "none" /\ outcome'[started] = "failed") =>
          /\ error' # Null
          /\ loading' = FALSE
          /\ repos' = repos
          /\ published' = published
          /\ requests' = requests]_vars
  /\ [](requests = started)

\* The current fetch failed after an earlier one had published.
C4_Witness ==
  /\ mounted
  /\ started = 2
  /\ outcome[2] = "failed"
  /\ error = "GitHub: 404"
  /\ loading = FALSE
  /\ 1 \in published

NonForkCount(data) == Cardinality({ j \in 1..Len(data) : ~data[j].fork })

\* C7: what a successful response publishes holds no fork and only records
\* of that response, and when the non-forks are at most N it holds each of
\* them exactly once.
C7_FilterCorrect ==
  lastPublish # NoData =>
    /\ \A i \in 1..Len(repos) :
         /\ ~repos[i].fork
         /\ \E j \in 1..Len(lastPublish.data) : lastPublish.data[j] = repos[i]
    /\ NonForkCount(lastPublish.data) <= lastPublish.n =>
         \A j \in 1..Len(lastPublish.data) :
           ~lastPublish.data[j].fork =>
             Cardinality({ i \in 1..Len(repos) : repos[i] = lastPublish.data[j] }) = 1

\* A response with a fork between two non-forks, all of the non-forks shown.
C7_Witness ==
  /\ lastPublish # NoData
  /\ Len(lastPublish.data) = 3
  /\ lastPublish.data[2].fork
  /\ NonForkCount(lastPublish.data) = 2
  /\ lastPublish.n = 2
  /\ Len(repos) = 2

\* C8: the published set has length min(N, n-k), is ordered by pushed_at
\* descending, and no omitted non-fork record was pushed later than a
\* published one.
C8_RankCorrect ==
  lastPublish # NoData =>
    /\ Len(repos) = Min(lastPublish.n, NonForkCount(lastPublish.data))
    /\ \A i \in 1..Len(repos), j \in 1..Len(repos) :
         i < j => repos[i].pushed_at >= repos[j].pushed_at
    /\ \A j \in 1..Len(lastPublish.data) :
         (/\ ~lastPublish.data[j].fork
          /\ \A i \in 1..Len(repos) : repos[i] # lastPublish.data[j]) =>
           \A i \in 1..Len(repos) : repos[i].pushed_at >= lastPublish.data[j].pushed_at

\* Three non-forks pushed at 2, 3, 1 in provider order, N = 2: 3 then 2 shown.
C8_Witness ==
  /\ lastPublish # NoData
  /\ lastPublish.n = 2
  /\ Len(lastPublish.data) = 3
  /\ NonForkCount(lastPublish.data) = 3
  /\ lastPublish.data[1].pushed_at = 2
  /\ lastPublish.data[2].pushed_at = 3
  /\ lastPublish.data[3].pushed_at = 1
  /\ Len(repos) = 2
  /\ repos[1].id = 2
  /\ repos[2].id = 1

\* C10: while the current fetch of a mounted component has not resolved,
\* loading is true, whatever earlier fetches do meanwhile.
C10_LoadingWhileOutstanding ==
  (mounted /\ started > 0 /\ outcome[started] = "none") => loading

\* A superseded fetch has resolved while the current one is outstanding.
C10_Witness ==
  /\ mounted
  /\ started = 2
  /\ outcome[1] \in Late
  /\ outcome[2] = "none"
  /\ loading

\* C5: the click that follows the release of a drag is suppressed exactly
\* when the offset of the last move event before the release is farther than
\* 5 from the start of the drag, whatever was reached earlier in the drag.
C5_SuppressedIffFinalBeyond5 ==
  (lastClick # "none" /\ dragged /\ moved) =>
    (lastClick = "suppressed" <=> offset[1] * offset[1] + offset[2] * offset[2] > 25)

\* A drag that went beyond 5 and came back to exactly 5 navigates.
C5_Witness ==
  /\ lastClick = "navigated"
  /\ dragged
  /\ moved
  /\ beyond
  /\ offset = <<3, 4>>

\* C6: the click of a press and release with no drag in between navigates,
\* whatever drags came before it.
C6_TapNavigates == (lastClick # "none" /\ ~dragged) => lastClick = "navigated"

\* C9: the layout of M entries has M positions; index i is on ring i mod 3 at
\* distance 120 + 50 * (i mod 3) and at i/M of a full turn; for M = 6 indices
\* 0 and 3 are equally far and half a turn apart; for M = 0 there is no
\* position and no division.
C9_Layout ==
  rendered =>
    /\ Len(positions) = Len(repos)
    /\ divisions = Len(repos)
    /\ \A i \in 0..(Len(repos) - 1) :
         /\ positions[i + 1].key = repos[i + 1].id
         /\ positions[i + 1].ring = i % 3
         /\ positions[i + 1].dist = 120 + 50 * (i % 3)
         /\ positions[i + 1].angle[2] > 0
         /\ positions[i + 1].angle[1] * Len(repos) = i * positions[i + 1].angle[2]
    /\ Len(repos) = 6 =>
         /\ positions[1].dist = positions[4].dist
         /\ positions[1].angle[1] = 0
         /\ 2 * positions[4].angle[1] = positions[4].angle[2]
    /\ Len(repos) = 0 => (positions = <<>> /\ divisions = 0)

\* Six entries have been laid out.
C9_Witness ==
  /\ rendered
  /\ Len(repos) = 6
  /\ Len(positions) = 6
  /\ positions[4].ring = 0
  /\ positions[4].angle = <<1, 2>>

\* What RepoConstellation's render shows: the placeholder under
\* {loading && ...}, and one RepoNode per entry of repos, which repos.map
\* produces under no condition.
PlaceholderShown == mounted /\ loading

NodesShown == IF mounted THEN Len(repos) ELSE 0

\* C11: whenever loading is true the placeholder is shown in place of the
\* nodes: no repository node is rendered, not even from a set published
\* before a refetch.
C11_NoNodesWhileLoading == PlaceholderShown => NodesShown = 0

====
